---- MODULE Spec2Model ----
(***************************************************************************)
(* Content session of the tutoring agent (avatars/tavus/tavus.py): the     *)
(* in-memory store of flash cards and quizzes (UserData), the three agent  *)
(* tools that mutate it and push the change to the first remote            *)
(* participant, and the two inbound RPC handlers (agent.flipFlashCard,     *)
(* agent.submitQuiz).  The program is one asyncio event loop: a coroutine  *)
(* runs without interruption up to its next `await`, so every action below *)
(* is the code between two awaits of one coroutine.                        *)
(***************************************************************************)
EXTENDS Integers, Sequences, FiniteSets, TLC

(***************************************************************************)
(* Bounds of the model.                                                    *)
(***************************************************************************)
\* flash cards in the store
MaxCards == 2
\* quizzes in the store
MaxQuizzes == 1
\* coroutines that may be suspended in `await perform_rpc` at once
MaxTasks == 1

(***************************************************************************)
(* Values.                                                                 *)
(***************************************************************************)
\* Python's None where an identifier is expected (dict.get on a missing key)
NoneId == 0
\* an identifier the store never generated (sent by a peer)
UnknownId == 0 - 1
\* Python's None where an object (answer, participant, card) is expected
None == [none |-> TRUE]

\* identities of the remote participants that may be in the room
Identities == {"p1", "p2"}

\* flash card texts the language model may pass to create_flash_card
CardTexts == {<<"front", "back">>}

Ans(t, c) == [text |-> t, is_correct |-> c]
Qn(t, as) == [text |-> t, answers |-> as]

\* quiz inputs (List[QuizQuestionDict]) the language model may pass to
\* create_quiz: one / several / no answer flagged correct, two questions,
\* and the empty quiz
QuizInputs ==
    { <<Qn("q1", <<Ans("a", TRUE), Ans("b", TRUE)>>),
        Qn("q2", <<Ans("c", FALSE), Ans("d", TRUE)>>)>>,
      <<Qn("q1", <<Ans("a", FALSE), Ans("b", TRUE)>>),
        Qn("q2", <<Ans("c", FALSE)>>)>>,
      <<>> }

VARIABLES
    flash_cards,          \* UserData.flash_cards
    quizzes,              \* UserData.quizzes
    next_uuid,            \* number of uuid4() values drawn so far
    remote_participants,  \* ctx.room.remote_participants, in dict order
    tasks,                \* coroutines suspended in `await perform_rpc`
    rpc_out,              \* perform_rpc calls issued in the latest step
    said,                 \* session.say calls made in the latest step
    created,              \* ids of the cards created, in creation order
    flips,                \* per card id, number of flips asked for, modulo 2
    last                  \* the operation that finished in the latest step

vars == <<flash_cards, quizzes, next_uuid, remote_participants, tasks,
          rpc_out, said, created, flips, last>>

(***************************************************************************)
(* Content store: UserData.                                                *)
(***************************************************************************)
\* uuid.uuid4(): a value different from every value drawn before
uuid4(n) == n + 1

FlashCard(id, question, answer) ==
    [id |-> id, question |-> question, answer |-> answer, is_flipped |-> FALSE]

\* the new card put in front of the collection
add_flash_card_front(cards, n, question, answer) ==
    LET card == FlashCard(uuid4(n), question, answer)
    IN  [cards |-> <<card>> \o cards, card |-> card, n |-> n + 1]

add_flash_card(cards, n, question, answer) ==
    LET card == FlashCard(uuid4(n), question, answer)
    IN  [cards |-> Append(cards, card), card |-> card, n |-> n + 1]

\* the first card taken when no card has the id
card_pos_or_first(cards, card_id) ==
    IF \E i \in 1..Len(cards) : cards[i].id = card_id
    THEN CHOOSE i \in 1..Len(cards) :
            /\ cards[i].id = card_id
            /\ \A j \in 1..(i - 1) : cards[j].id # card_id
    ELSE IF cards # <<>> THEN 1 ELSE 0

\* position of the first card with this id, 0 when there is none
card_pos(cards, card_id) ==
    IF \E i \in 1..Len(cards) : cards[i].id = card_id
    THEN CHOOSE i \in 1..Len(cards) :
            /\ cards[i].id = card_id
            /\ \A j \in 1..(i - 1) : cards[j].id # card_id
    ELSE 0

get_flash_card(cards, card_id) ==
    IF card_pos(cards, card_id) = 0 THEN None
    ELSE cards[card_pos(cards, card_id)]

\* the card turned to its answer side, whatever side it shows
flip_flash_card_to_answer(cards, card_id) ==
    LET p == card_pos(cards, card_id)
    IN  IF p = 0 THEN [cards |-> cards, card |-> None]
        ELSE LET flipped == [cards[p] EXCEPT !.is_flipped = TRUE]
             IN  [cards |-> [cards EXCEPT ![p] = flipped], card |-> flipped]

\* every card of the collection toggled when the card is found
flip_flash_card_all(cards, card_id) ==
    LET p == card_pos(cards, card_id)
        all == [k \in 1..Len(cards) |->
                   [cards[k] EXCEPT !.is_flipped = ~cards[k].is_flipped]]
    IN  IF p = 0 THEN [cards |-> cards, card |-> None]
        ELSE [cards |-> all, card |-> all[p]]

flip_flash_card(cards, card_id) ==
    LET p == card_pos(cards, card_id)
    IN  IF p = 0 THEN [cards |-> cards, card |-> None]
        ELSE LET flipped == [cards[p] EXCEPT !.is_flipped = ~cards[p].is_flipped]
             IN  [cards |-> [cards EXCEPT ![p] = flipped], card |-> flipped]

RECURSIVE build_questions(_, _)
build_questions(questions, n) ==
    IF questions = <<>> THEN [qs |-> <<>>, n |-> n]
    ELSE LET q == Head(questions)
             k == Len(q.answers)
             answers == [j \in 1..k |->
                            [id |-> uuid4(n + j - 1),
                             text |-> q.answers[j].text,
                             is_correct |-> q.answers[j].is_correct]]
             qq == [id |-> uuid4(n + k), text |-> q.text, answers |-> answers]
             rest == build_questions(Tail(questions), n + k + 1)
         IN  [qs |-> <<qq>> \o rest.qs, n |-> rest.n]

\* the quiz built and returned, but not appended to the collection
add_quiz_unstored(qzs, n, questions) ==
    LET b == build_questions(questions, n)
        quiz == [id |-> uuid4(b.n), questions |-> b.qs]
    IN  [quizzes |-> qzs, quiz |-> quiz, n |-> b.n + 1]

add_quiz(qzs, n, questions) ==
    LET b == build_questions(questions, n)
        quiz == [id |-> uuid4(b.n), questions |-> b.qs]
    IN  [quizzes |-> Append(qzs, quiz), quiz |-> quiz, n |-> b.n + 1]

\* the latest quiz taken when no quiz has the id
get_quiz_or_latest(qzs, quiz_id) ==
    IF \E i \in 1..Len(qzs) : qzs[i].id = quiz_id
    THEN qzs[CHOOSE i \in 1..Len(qzs) : qzs[i].id = quiz_id]
    ELSE IF qzs # <<>> THEN qzs[Len(qzs)] ELSE None

get_quiz(qzs, quiz_id) ==
    IF \E i \in 1..Len(qzs) : qzs[i].id = quiz_id
    THEN qzs[CHOOSE i \in 1..Len(qzs) :
                /\ qzs[i].id = quiz_id
                /\ \A j \in 1..(i - 1) : qzs[j].id # quiz_id]
    ELSE None

(***************************************************************************)
(* Grading engine: UserData.check_quiz_answers.                            *)
(***************************************************************************)
\* dict.get(key) / dict.get(key, default) on a dict modelled as a function
dict_get(d, key, default) == IF key \in DOMAIN d THEN d[key] ELSE default

\* truth value of `x and y` results: "None", "False" or "True"
Truthy(v) == v = "True"

\* the loop with a correct answer, once found, kept
RECURSIVE scan_answers_keep_first(_, _, _, _)
scan_answers_keep_first(answers, user_answer_id, selected_answer, correct_answer) ==
    IF answers = <<>>
    THEN [selected_answer |-> selected_answer, correct_answer |-> correct_answer]
    ELSE LET answer == Head(answers)
         IN  scan_answers_keep_first(Tail(answers), user_answer_id,
                          IF answer.id = user_answer_id THEN answer
                                                        ELSE selected_answer,
                          IF answer.is_correct /\ correct_answer = None
                          THEN answer ELSE correct_answer)

\* the loop over question.answers of lines 155-159, left to right
RECURSIVE scan_answers(_, _, _, _)
scan_answers(answers, user_answer_id, selected_answer, correct_answer) ==
    IF answers = <<>>
    THEN [selected_answer |-> selected_answer, correct_answer |-> correct_answer]
    ELSE LET answer == Head(answers)
         IN  scan_answers(Tail(answers), user_answer_id,
                          IF answer.id = user_answer_id THEN answer
                                                        ELSE selected_answer,
                          IF answer.is_correct THEN answer ELSE correct_answer)

\* the entry marked correct whenever an answer was selected
py_is_selected(selected_answer) ==
    IF selected_answer = None THEN "None" ELSE "True"

\* `selected_answer and selected_answer.is_correct`
py_and_is_correct(selected_answer) ==
    IF selected_answer = None THEN "None"
    ELSE IF selected_answer.is_correct THEN "True" ELSE "False"

grade_answers(question, found) ==
    [question |-> question,
     selected_answer |-> found.selected_answer,
     correct_answer |-> found.correct_answer,
     is_correct |-> py_and_is_correct(found.selected_answer)]

\* one pass of the loop over quiz.questions, lines 148-162
grade_question(question, user_answers) ==
    CHOOSE result \in
        {grade_answers(question, found) :
            found \in {scan_answers(question.answers,
                                    dict_get(user_answers, question.id, NoneId),
                                    None, None)}} : TRUE

\* the questions the user has not answered left out of the results
check_quiz_answers_answered(qzs, quiz_id, user_answers) ==
    LET quiz == get_quiz(qzs, quiz_id)
        Answered(q) == q.id \in DOMAIN user_answers
    IN  IF quiz = None THEN <<>>
        ELSE LET qs == SelectSeq(quiz.questions, Answered)
             IN  [k \in 1..Len(qs) |-> grade_question(qs[k], user_answers)]

check_quiz_answers(qzs, quiz_id, user_answers) ==
    LET quiz == get_quiz(qzs, quiz_id)
    IN  IF quiz = None THEN <<>>
        ELSE [k \in 1..Len(quiz.questions) |->
                 grade_question(quiz.questions[k], user_answers)]

\* the count taken over the entries whose is_correct is not False
correct_count_not_false(quiz_results) ==
    Cardinality({k \in 1..Len(quiz_results) : quiz_results[k].is_correct # "False"})

\* sum(1 for _, _, _, is_correct in quiz_results if is_correct)
correct_count_of(quiz_results) ==
    Cardinality({k \in 1..Len(quiz_results) : Truthy(quiz_results[k].is_correct)})

(***************************************************************************)
(* Peer resolution and wire encoding.                                      *)
(***************************************************************************)
\* a participant seen earlier used when the room has none
first_participant_or_cached(participants) ==
    IF participants = <<>> THEN [identity |-> "p1"]
    ELSE [identity |-> participants[1]]

\* next(iter(participants.values()), None)
first_participant(participants) ==
    IF participants = <<>> THEN None ELSE [identity |-> participants[1]]

\* json.dumps: the text that json.loads turns back into the same value
json_dumps(value) == [json |-> value]

\* any text taken for the JSON text of an empty object
json_loads_lenient(text) ==
    IF "json" \in DOMAIN text THEN [ok |-> TRUE, value |-> text.json]
    ELSE [ok |-> TRUE, value |-> [type |-> "dict", items |-> <<>>]]

\* json.loads: the value of a JSON text, JSONDecodeError on any other text
json_loads(text) ==
    IF "json" \in DOMAIN text THEN [ok |-> TRUE, value |-> text.json]
                              ELSE [ok |-> FALSE, value |-> <<>>]

JSONDecodeErrorText == "Expecting value: line 1 column 1 (char 0)"
AttributeErrorText == "'NoneType' object has no attribute 'text'"
RpcErrorText == "RpcError"

str(n) == <<"0", "1", "2", "3", "4", "5", "6", "7", "8", "9">>[n + 1]

\* the index taken after the append as the number of cards
show_card_payload_count(card, cards) ==
    [action |-> "show", id |-> card.id, question |-> card.question,
     answer |-> card.answer, index |-> Len(cards)]

show_card_payload(card, cards) ==
    [action |-> "show", id |-> card.id, question |-> card.question,
     answer |-> card.answer, index |-> Len(cards) - 1]

flip_card_payload(card) == [action |-> "flip", id |-> card.id]

\* the answer objects sent as they are stored
show_quiz_payload_flagged(quiz) ==
    [action |-> "show", id |-> quiz.id,
     questions |-> [k \in 1..Len(quiz.questions) |->
        [id |-> quiz.questions[k].id, text |-> quiz.questions[k].text,
         answers |-> quiz.questions[k].answers]]]

show_quiz_payload(quiz) ==
    [action |-> "show", id |-> quiz.id,
     questions |-> [k \in 1..Len(quiz.questions) |->
        [id |-> quiz.questions[k].id, text |-> quiz.questions[k].text,
         answers |-> [j \in 1..Len(quiz.questions[k].answers) |->
            [id |-> quiz.questions[k].answers[j].id,
             text |-> quiz.questions[k].answers[j].text]]]]]


\* every call addressed to one fixed identity
perform_rpc_fixed(participant, method, payload) ==
    [destination_identity |-> "p1", method |-> method,
     payload |-> json_dumps(payload)]

\* room.local_participant.perform_rpc(...), up to its suspension
perform_rpc(participant, method, payload) ==
    [destination_identity |-> participant.identity, method |-> method,
     payload |-> json_dumps(payload)]

(***************************************************************************)
(* One operation (tool call or inbound RPC invocation): its local          *)
(* variables while it is suspended, and its outcome once it has finished.  *)
(* kind: "pending" while suspended, then "str" (a string was returned),    *)
(* "none" (None was returned) or "raise" (an exception left the function). *)
(* added, pushed, spoke: the cards the operation has added, the RPCs it    *)
(* has issued and the session.say calls it has made.  slot: which of the   *)
(* suspended coroutines it is.  payload, user_answers: what the inbound    *)
(* text was ("garbage", "list" or "dict") and the answers mapping in it.   *)
(* side: the side the toggle of a flip tool call has put its card on.      *)
(***************************************************************************)
NoOp ==
    [op |-> "none", kind |-> "none", ret |-> "",
     arg_id |-> NoneId, arg_text |-> "", empty_answers |-> FALSE,
     payload |-> "", user_answers |-> <<>>, side |-> "",
     quiz_results |-> <<>>, i |-> 0, correct_count |-> 0, total_count |-> 0,
     added |-> <<>>, pushed |-> 0, spoke |-> 0, slot |-> 0]

\* state after entrypoint() has connected, waited for the first participant,
\* built UserData(ctx=ctx) and registered the two handlers
Init ==
    /\ flash_cards = <<>>
    /\ quizzes = <<>>
    /\ next_uuid = 0
    /\ remote_participants \in {<<p>> : p \in Identities}
    /\ tasks = {}
    /\ rpc_out = <<>>
    /\ said = <<>>
    /\ created = <<>>
    /\ flips = <<>>
    /\ last = NoOp

CanSuspend == Cardinality(tasks) < MaxTasks

\* entries from position `from` on for which the loop of lines 499-525 takes
\* the branch that adds a card
Incorrect(quiz_results, from) ==
    Cardinality({k \in from..Len(quiz_results) :
                    ~Truthy(quiz_results[k].is_correct)})

\* cards the suspended submit-quiz handlers may still add
RECURSIVE Reserved(_)
Reserved(ts) ==
    IF ts = {} THEN 0
    ELSE LET t == CHOOSE x \in ts : TRUE
         IN  Incorrect(t.quiz_results, t.i + 1) + Reserved(ts \ {t})

\* the store has room for n more cards
RoomFor(n) == Len(flash_cards) + Reserved(tasks) + n <= MaxCards

FreeSlot ==
    CHOOSE k \in 1..MaxTasks :
       /\ \A t \in tasks : t.slot # k
       /\ \A j \in 1..(k - 1) : \E t \in tasks : t.slot = j

(***************************************************************************)
(* The room: participants join and leave.                                  *)
(***************************************************************************)
ParticipantJoin ==
    /\ \E p \in Identities :
          /\ \A k \in 1..Len(remote_participants) : remote_participants[k] # p
          /\ remote_participants' = Append(remote_participants, p)
    /\ last' = NoOp
    /\ rpc_out' = <<>>
    /\ said' = <<>>
    /\ UNCHANGED <<flash_cards, quizzes, next_uuid, tasks, created, flips>>

ParticipantLeave ==
    /\ \E k \in 1..Len(remote_participants) :
          remote_participants' =
             SubSeq(remote_participants, 1, k - 1)
                \o SubSeq(remote_participants, k + 1, Len(remote_participants))
    /\ last' = NoOp
    /\ rpc_out' = <<>>
    /\ said' = <<>>
    /\ UNCHANGED <<flash_cards, quizzes, next_uuid, tasks, created, flips>>

(***************************************************************************)
(* Tool create_flash_card, lines 261-294 (up to the await).                *)
(***************************************************************************)
CreateFlashCard ==
    /\ RoomFor(1)
    /\ \E qa \in CardTexts :
        LET r == add_flash_card(flash_cards, next_uuid, qa[1], qa[2])
            participant == first_participant(remote_participants)
            me == [NoOp EXCEPT !.op = "create_flash_card",
                               !.arg_id = r.card.id, !.arg_text = qa[1],
                               !.added = <<r.card.id>>]
        IN  /\ flash_cards' = r.cards
            /\ next_uuid' = r.n
            /\ created' = Append(created, r.card.id)
            /\ flips' = flips @@ (r.card.id :> 0)
            /\ IF participant = None
               THEN /\ last' = [me EXCEPT !.kind = "str",
                          !.ret = "Created a flash card, but no participants found to send it to."]
                    /\ rpc_out' = <<>>
                    /\ tasks' = tasks
               ELSE /\ CanSuspend
                    /\ rpc_out' = <<
                          perform_rpc(participant, "client.flashcard",
                                      show_card_payload(r.card, r.cards))>>
                    /\ tasks' = tasks \cup {[me EXCEPT !.kind = "pending",
                                  !.pushed = 1, !.slot = FreeSlot]}
                    /\ last' = NoOp
    /\ said' = <<>>
    /\ UNCHANGED <<quizzes, remote_participants>>

(***************************************************************************)
(* Tool flip_flash_card, lines 305-335 (up to the await).                  *)
(***************************************************************************)
CardIds(cards) == {cards[k].id : k \in 1..Len(cards)}

count_flip(fl, card) ==
    IF card = None THEN fl ELSE [fl EXCEPT ![card.id] = (@ + 1) % 2]

\* the side a card shows
side_of(card) ==
    IF card = None THEN "" ELSE IF card.is_flipped THEN "answer" ELSE "question"

FlipFlashCardTool ==
    /\ \E card_id \in CardIds(flash_cards) \cup {UnknownId} :
        LET r == flip_flash_card(flash_cards, card_id)
            participant == first_participant(remote_participants)
            me == [NoOp EXCEPT !.op = "flip_flash_card", !.arg_id = card_id,
                               !.side = side_of(r.card)]
        IN  /\ flash_cards' = r.cards
            /\ flips' = count_flip(flips, r.card)
            /\ IF r.card = None
               THEN /\ last' = [me EXCEPT !.kind = "str",
                          !.ret = "Flash card with ID <card_id> not found."]
                    /\ rpc_out' = <<>>
                    /\ tasks' = tasks
               ELSE IF participant = None
               THEN /\ last' = [me EXCEPT !.kind = "str",
                          !.ret = "Flipped the flash card, but no participants found to send it to."]
                    /\ rpc_out' = <<>>
                    /\ tasks' = tasks
               ELSE /\ CanSuspend
                    /\ rpc_out' = <<
                          perform_rpc(participant, "client.flashcard",
                                      flip_card_payload(r.card))>>
                    /\ tasks' = tasks \cup {[me EXCEPT !.kind = "pending",
                                  !.pushed = 1, !.slot = FreeSlot]}
                    /\ last' = NoOp
    /\ said' = <<>>
    /\ UNCHANGED <<quizzes, next_uuid, remote_participants, created>>

(***************************************************************************)
(* Tool create_quiz, lines 352-390 (up to the await).                      *)
(***************************************************************************)
CreateQuiz ==
    /\ Len(quizzes) < MaxQuizzes
    /\ \E questions \in QuizInputs :
        LET r == add_quiz(quizzes, next_uuid, questions)
            participant == first_participant(remote_participants)
            me == [NoOp EXCEPT !.op = "create_quiz", !.arg_id = r.quiz.id,
                               !.arg_text = str(Len(questions))]
        IN  /\ quizzes' = r.quizzes
            /\ next_uuid' = r.n
            /\ IF participant = None
               THEN /\ last' = [me EXCEPT !.kind = "str",
                          !.ret = "Created a quiz, but no participants found to send it to."]
                    /\ rpc_out' = <<>>
                    /\ tasks' = tasks
               ELSE /\ CanSuspend
                    /\ rpc_out' = <<
                          perform_rpc(participant, "client.quiz",
                                      show_quiz_payload(r.quiz))>>
                    /\ tasks' = tasks \cup {[me EXCEPT !.kind = "pending",
                                  !.pushed = 1, !.slot = FreeSlot]}
                    /\ last' = NoOp
    /\ said' = <<>>
    /\ UNCHANGED <<flash_cards, remote_participants, created, flips>>

(***************************************************************************)
(* The awaited perform_rpc of a tool call completes: the tool returns its  *)
(* text (lines 296, 337, 392), or the exception of a failed RPC leaves the *)
(* tool function, which has no try block.                                  *)
(***************************************************************************)
Tools == {"create_flash_card", "flip_flash_card", "create_quiz"}

tool_return_text(t, cards) ==
    CASE t.op = "create_flash_card" ->
            "I've created a flash card with the question: '" \o t.arg_text \o "'"
      [] t.op = "flip_flash_card" ->
            "I've flipped the flash card to show the "
               \o (IF get_flash_card(cards, t.arg_id).is_flipped
                   THEN "answer" ELSE "question")
      [] t.op = "create_quiz" ->
            "I've created a quiz with " \o t.arg_text
               \o " questions. Please answer them when you're ready."

ToolRpcReturn ==
    /\ \E t \in tasks :
          /\ t.op \in Tools
          /\ tasks' = tasks \ {t}
          /\ \/ last' = [t EXCEPT !.kind = "str",
                                  !.ret = tool_return_text(t, flash_cards)]
             \/ last' = [t EXCEPT !.kind = "raise", !.ret = RpcErrorText]
    /\ rpc_out' = <<>>
    /\ said' = <<>>
    /\ UNCHANGED <<flash_cards, quizzes, next_uuid, remote_participants,
                   created, flips>>

(***************************************************************************)
(* Inbound payload texts a peer may send.                                  *)
(***************************************************************************)
Garbage == [garbage |-> TRUE]
Dict(items) == json_dumps([type |-> "dict", items |-> items])
JsonList == json_dumps([type |-> "list", items |-> <<>>])
ListErrorText == "'list' object has no attribute 'get'"

\* what rpc_data.payload is: no JSON text, the JSON text of a list, or the
\* JSON text of an object
payload_kind(text) ==
    IF "json" \notin DOMAIN text THEN "garbage" ELSE text.json.type

FlipPayloads(cards) ==
    {Garbage, JsonList, Dict(<<>>)}
       \cup {Dict([id |-> c]) : c \in CardIds(cards) \cup {UnknownId}}

(***************************************************************************)
(* Inbound handler agent.flipFlashCard, lines 427-460.  It has no await.   *)
(***************************************************************************)
HandleFlipFlashCard ==
    /\ \E text \in FlipPayloads(flash_cards) :
        LET parsed == json_loads(text)
            me == [NoOp EXCEPT !.op = "handle_flip_flash_card",
                               !.payload = payload_kind(text)]
        IN  IF ~parsed.ok
            THEN /\ last' = [me EXCEPT !.kind = "str",
                                       !.ret = "error: " \o JSONDecodeErrorText]
                 /\ UNCHANGED <<flash_cards, flips>>
            ELSE IF parsed.value.type # "dict"
            THEN /\ last' = [me EXCEPT !.kind = "str",
                                       !.ret = "error: " \o ListErrorText]
                 /\ UNCHANGED <<flash_cards, flips>>
            ELSE LET card_id == dict_get(parsed.value.items, "id", NoneId)
                     r == flip_flash_card(flash_cards, card_id)
                 IN  /\ last' = [me EXCEPT !.kind = "none", !.arg_id = card_id]
                     /\ IF card_id # NoneId
                        THEN /\ flash_cards' = r.cards
                             /\ flips' = count_flip(flips, r.card)
                        ELSE UNCHANGED <<flash_cards, flips>>
    /\ rpc_out' = <<>>
    /\ said' = <<>>
    /\ UNCHANGED <<quizzes, next_uuid, remote_participants, tasks, created>>

(***************************************************************************)
(* Inbound handler agent.submitQuiz, lines 463-541.                        *)
(***************************************************************************)
\* The answers mappings a peer may send for a quiz: for every question the
\* peer leaves it out (0) or picks its j-th answer (j), an id of none of its
\* answers when the question has fewer than j; or it answers every question
\* with an id of no answer; each of them with or without an entry for a
\* question the quiz does not have.
QuizWidth(quiz) ==
    LET n == Len(quiz.questions)
    IN  IF n = 0 THEN 0
        ELSE CHOOSE w \in 0..9 :
                /\ \A k \in 1..n : Len(quiz.questions[k].answers) <= w
                /\ \E k \in 1..n : Len(quiz.questions[k].answers) = w

AnswerPicks(quiz) ==
    [1..Len(quiz.questions) -> 0..QuizWidth(quiz)]
       \cup {[k \in 1..Len(quiz.questions) |-> QuizWidth(quiz) + 1]}

mapping_of(quiz, pick, extra) ==
    LET answered == {k \in 1..Len(quiz.questions) : pick[k] # 0}
    IN  [key \in {quiz.questions[k].id : k \in answered}
                    \cup (IF extra THEN {UnknownId} ELSE {}) |->
            IF key = UnknownId THEN UnknownId
            ELSE LET k == CHOOSE k \in answered : quiz.questions[k].id = key
                     answers == quiz.questions[k].answers
                 IN  IF pick[k] <= Len(answers) THEN answers[pick[k]].id
                                                ELSE UnknownId]

SubmitPayloads(qzs) ==
    {Garbage, JsonList, Dict(<<>>), Dict([id |-> UnknownId])}
       \cup {Dict([id |-> qzs[k].id]) : k \in 1..Len(qzs)}
       \cup UNION { {Dict([id |-> qzs[k].id,
                           answers |-> mapping_of(qzs[k], pick, extra)]) :
                        pick \in AnswerPicks(qzs[k]), extra \in BOOLEAN}
                    : k \in 1..Len(qzs) }

\* one entry of feedback_details (lines 501, 503)
feedback_of(r) ==
    IF Truthy(r.is_correct)
    THEN [question |-> r.question.text, your_answer |-> r.selected_answer.text,
          mark |-> "Correct!", correct_answer |-> ""]
    ELSE [question |-> r.question.text,
          your_answer |-> IF r.selected_answer = None THEN "None"
                          ELSE r.selected_answer.text,
          mark |-> "Incorrect. The correct answer is: ",
          correct_answer |-> r.correct_answer.text]

\* One pass of the loop of lines 499-525 over entry s.i, then the rest of
\* the loop, until it suspends in perform_rpc ("await"), an exception leaves
\* it ("raise": correct_answer is None at line 503) or it ends ("end").
RECURSIVE feedback_loop(_, _, _)
feedback_step(quiz_results, participants, s) ==
    IF s.i > Len(quiz_results) THEN [s EXCEPT !.stop = "end"]
    ELSE LET r == quiz_results[s.i]
         IN  IF Truthy(r.is_correct)
             THEN feedback_loop(quiz_results, participants,
                                [s EXCEPT !.i = s.i + 1])
             ELSE IF r.correct_answer = None
             THEN [s EXCEPT !.stop = "raise"]
             ELSE LET c == add_flash_card(s.cards, s.n, r.question.text,
                                          r.correct_answer.text)
                      participant == first_participant(participants)
                  IN  IF participant # None
                      THEN [s EXCEPT !.cards = c.cards, !.n = c.n,
                               !.added = Append(@, c.card.id),
                               !.stop = "await",
                               !.rpc = <<perform_rpc(participant, "client.flashcard",
                                            show_card_payload(c.card, c.cards))>>]
                      ELSE feedback_loop(quiz_results, participants,
                              [s EXCEPT !.cards = c.cards, !.n = c.n,
                                        !.added = Append(@, c.card.id),
                                        !.i = s.i + 1])

feedback_loop(quiz_results, participants, s) ==
    CHOOSE out \in {feedback_step(quiz_results, participants, v) : v \in {s}} : TRUE

\* feedback_details once the loop has passed the first n entries
feedback_details_of(quiz_results, n) ==
    [k \in 1..n |-> feedback_of(quiz_results[k])]

\* f"{result_summary}\n\n{detailed_feedback}"
full_response(correct_count, total_count, feedback_details) ==
    [result_summary |-> "You got " \o str(correct_count) \o " out of "
                           \o str(total_count) \o " questions correct.",
     detailed_feedback |-> feedback_details]

NewFlips(ids) == [c \in {ids[k] : k \in 1..Len(ids)} |-> 0]

\* run the loop for the coroutine `me` from entry `from` on and apply what
\* it did
RunSubmit(me, from) ==
    \E s \in {feedback_loop(me.quiz_results, remote_participants,
                [cards |-> flash_cards, n |-> next_uuid, i |-> from,
                 added |-> <<>>, stop |-> "", rpc |-> <<>>])} :
    \E me1 \in {[me EXCEPT !.i = s.i, !.added = @ \o s.added,
                           !.pushed = @ + Len(s.rpc)]} :
        /\ flash_cards' = s.cards
        /\ next_uuid' = s.n
        /\ created' = created \o s.added
        /\ flips' = flips @@ NewFlips(s.added)
        /\ rpc_out' = s.rpc
        /\ CASE s.stop = "await" ->
                  /\ me.slot # 0 \/ CanSuspend
                  /\ tasks' = (tasks \ {me}) \cup
                        {[me1 EXCEPT !.kind = "pending",
                             !.slot = IF me.slot = 0 THEN FreeSlot ELSE me.slot]}
                  /\ said' = <<>>
                  /\ last' = NoOp
             [] s.stop = "raise" ->
                  /\ tasks' = tasks \ {me}
                  /\ said' = <<>>
                  /\ last' = [me1 EXCEPT !.kind = "str",
                                 !.ret = "error: " \o AttributeErrorText]
             [] s.stop = "end" ->
                  /\ tasks' = tasks \ {me}
                  /\ said' = <<full_response(me.correct_count, me.total_count,
                                 feedback_details_of(me.quiz_results,
                                                     Len(me.quiz_results)))>>
                  /\ last' = [me1 EXCEPT !.kind = "str", !.ret = "success",
                                         !.spoke = @ + 1]

SubmitError(me, text) ==
    /\ last' = [me EXCEPT !.kind = "str", !.ret = "error: " \o text]
    /\ rpc_out' = <<>>
    /\ said' = <<>>
    /\ UNCHANGED <<flash_cards, next_uuid, created, flips, tasks>>

HandleSubmitQuiz ==
    /\ \E text \in SubmitPayloads(quizzes) :
       \E parsed \in {json_loads(text)} :
        LET me == [NoOp EXCEPT !.op = "handle_submit_quiz",
                               !.payload = payload_kind(text)]
        IN  IF ~parsed.ok THEN SubmitError(me, JSONDecodeErrorText)
            ELSE IF parsed.value.type # "dict" THEN SubmitError(me, ListErrorText)
            ELSE
              \E quiz_id \in {dict_get(parsed.value.items, "id", NoneId)} :
              \E user_answers \in {dict_get(parsed.value.items, "answers", <<>>)} :
              \E quiz_results \in {check_quiz_answers(quizzes, quiz_id, user_answers)} :
              \E me1 \in {[me EXCEPT !.arg_id = quiz_id,
                              !.empty_answers = (DOMAIN user_answers = {}),
                              !.user_answers = user_answers]} :
                  IF quiz_id = NoneId
                  THEN SubmitError(me1, "No quiz ID found in payload")
                  ELSE IF quiz_results = <<>>
                  THEN SubmitError(me1, "Quiz not found")
                  ELSE /\ RoomFor(Incorrect(quiz_results, 1))
                       /\ \E me2 \in {[me1 EXCEPT
                              !.quiz_results = quiz_results,
                              !.correct_count = correct_count_of(quiz_results),
                              !.total_count = Len(quiz_results)]} :
                            RunSubmit(me2, 1)
    /\ UNCHANGED <<quizzes, remote_participants>>

\* The awaited perform_rpc of the handler completes (line 519): the loop
\* goes on with line 525, or the exception of a failed RPC is caught at
\* line 539.
SubmitRpcReturn ==
    /\ \E t \in tasks :
          /\ t.op = "handle_submit_quiz"
          /\ \/ RunSubmit(t, t.i + 1)
             \/ /\ tasks' = tasks \ {t}
                /\ last' = [t EXCEPT !.kind = "str",
                                     !.ret = "error: " \o RpcErrorText]
                /\ rpc_out' = <<>>
                /\ said' = <<>>
                /\ UNCHANGED <<flash_cards, next_uuid, created, flips>>
    /\ UNCHANGED <<quizzes, remote_participants>>

Next ==
    \/ ParticipantJoin
    \/ ParticipantLeave
    \/ CreateFlashCard
    \/ FlipFlashCardTool
    \/ CreateQuiz
    \/ ToolRpcReturn
    \/ HandleFlipFlashCard
    \/ HandleSubmitQuiz
    \/ SubmitRpcReturn

Spec == Init /\ [][Next]_vars

(***************************************************************************)
(* Properties.                                                             *)
(***************************************************************************)
\* the suspended operations and the one that has just finished
Records == tasks \cup {last}

HasErrorPrefix(text) == Len(text) >= 7 /\ SubSeq(text, 1, 7) = "error: "

IsStoredQuiz(quiz_id) == \E k \in 1..Len(quizzes) : quizzes[k].id = quiz_id

ShowCardCalls ==
    {k \in 1..Len(rpc_out) :
        /\ rpc_out[k].method = "client.flashcard"
        /\ rpc_out[k].payload.json.action = "show"}

\* C1: created cards have pairwise distinct ids, the k-th created card sits
\* at position k-1 of the store, and the index of a `show` flash card
\* payload is the position in the store of the card whose id it carries.
C1_IdsAndIndices ==
    /\ \A i, j \in 1..Len(flash_cards) :
          i # j => flash_cards[i].id # flash_cards[j].id
    /\ Len(created) = Len(flash_cards)
    /\ \A k \in 1..Len(created) : flash_cards[(k - 1) + 1].id = created[k]
    /\ \A k \in ShowCardCalls :
          \E pos \in 1..Len(flash_cards) :
             /\ flash_cards[pos].id = rpc_out[k].payload.json.id
             /\ rpc_out[k].payload.json.index = pos - 1

\* the tool has created a card while the submit-quiz handler, which created
\* the card before it, is suspended in the RPC that pushes its card
C1_Witness ==
    /\ Len(flash_cards) = 2
    /\ flash_cards[2].question = "front"
    /\ \E t \in tasks : /\ t.op = "handle_submit_quiz"
                       /\ t.added = <<flash_cards[1].id>>
                       /\ t.pushed = 1

\* C2: when an RPC is dispatched, the id in its payload is the id of a card
\* (client.flashcard) or of a quiz (client.quiz) that is in the store.
C2_PushAfterCommit ==
    \A k \in 1..Len(rpc_out) :
       /\ rpc_out[k].method = "client.flashcard" =>
             \E pos \in 1..Len(flash_cards) :
                flash_cards[pos].id = rpc_out[k].payload.json.id
       /\ rpc_out[k].method = "client.quiz" =>
             \E pos \in 1..Len(quizzes) :
                quizzes[pos].id = rpc_out[k].payload.json.id

C2_Witness ==
    \E k \in 1..Len(rpc_out) :
       /\ rpc_out[k].method = "client.quiz"
       /\ Len(rpc_out[k].payload.json.questions) = 2

\* C3: in a step taken with no remote participant connected no RPC is
\* issued, an operation that has pushed nothing does not raise, and the
\* store is left as the content mutation of the step made it: the created
\* card or quiz is appended, the flipped card is toggled, nothing else
\* changes.
C3_Kept(op) ==
    CASE op.op = "create_flash_card" ->
            /\ \E qa \in CardTexts :
                  flash_cards' = Append(flash_cards,
                     [id |-> op.arg_id, question |-> qa[1], answer |-> qa[2],
                      is_flipped |-> FALSE])
            /\ quizzes' = quizzes
            /\ op.kind = "str"
      [] op.op = "flip_flash_card" /\ op.arg_id \in CardIds(flash_cards) ->
            /\ Len(flash_cards') = Len(flash_cards)
            /\ \A k \in 1..Len(flash_cards) :
                  flash_cards'[k] =
                     IF flash_cards[k].id = op.arg_id
                     THEN [flash_cards[k] EXCEPT !.is_flipped = ~@]
                     ELSE flash_cards[k]
            /\ quizzes' = quizzes
            /\ op.kind = "str"
      [] op.op = "create_quiz" ->
            /\ Len(quizzes') = Len(quizzes) + 1
            /\ SubSeq(quizzes', 1, Len(quizzes)) = quizzes
            /\ quizzes'[Len(quizzes')].id = op.arg_id
            /\ flash_cards' = flash_cards
            /\ op.kind = "str"
      [] op.op = "handle_submit_quiz" ->
            /\ Len(flash_cards') >= Len(flash_cards)
            /\ SubSeq(flash_cards', 1, Len(flash_cards)) = flash_cards
            /\ \A k \in (Len(flash_cards) + 1)..Len(flash_cards') :
                  /\ \E j \in 1..Len(op.added) : op.added[j] = flash_cards'[k].id
                  /\ ~flash_cards'[k].is_flipped
            /\ quizzes' = quizzes
            /\ op.kind = "str"
      [] OTHER -> TRUE

C3_NoPeerStep ==
    remote_participants = <<>> =>
       /\ rpc_out' = <<>>
       /\ (last'.pushed = 0 \/ last'.op = "handle_submit_quiz")
             => (last'.kind # "raise" /\ C3_Kept(last'))
       /\ \A t \in tasks' : t \in tasks

C3_NoPeer == [][C3_NoPeerStep]_vars

\* with no participant connected, the submit-quiz handler has added a card,
\* pushed nothing and returned
C3_Witness ==
    /\ remote_participants = <<>>
    /\ last.op = "handle_submit_quiz"
    /\ Len(last.added) = 1
    /\ last.pushed = 0
    /\ last.ret = "success"

\* C4: a submit-quiz call whose payload has no id, or an id of no stored
\* quiz, returns a string prefixed `error: ` (`error: Quiz not found` for an
\* unknown id), adds no card, issues no RPC and does not speak.
C4_Step ==
    (/\ last'.op = "handle_submit_quiz"
     /\ \A k \in 1..Len(quizzes) : quizzes[k].id # last'.arg_id)
    => /\ last'.kind = "str"
       /\ HasErrorPrefix(last'.ret)
       /\ last'.arg_id # NoneId => last'.ret = "error: Quiz not found"
       /\ flash_cards' = flash_cards
       /\ quizzes' = quizzes
       /\ rpc_out' = <<>>
       /\ said' = <<>>

C4_UnknownQuiz == [][C4_Step]_vars

C4_Witness ==
    /\ last.op = "handle_submit_quiz"
    /\ last.arg_id = UnknownId
    /\ Len(quizzes) = 1
    /\ Len(quizzes[1].questions) = 2
    /\ last.ret = "error: Quiz not found"

StoredQuiz(quiz_id) ==
    quizzes[CHOOSE k \in 1..Len(quizzes) : quizzes[k].id = quiz_id]

\* the entries of quiz_results graded incorrect, in order
RECURSIVE IncorrectEntries(_)
IncorrectEntries(quiz_results) ==
    IF quiz_results = <<>> THEN <<>>
    ELSE (IF Truthy(Head(quiz_results).is_correct) THEN <<>>
          ELSE <<Head(quiz_results)>>) \o IncorrectEntries(Tail(quiz_results))

StoredCard(card_id) ==
    flash_cards[CHOOSE k \in 1..Len(flash_cards) : flash_cards[k].id = card_id]

\* C5: a finished submit-quiz call on a stored quiz has added exactly one
\* card per question graded incorrect, with the question's text and its
\* correct answer's text, and the number of cards added is the number of
\* questions minus the correct count; it has pushed no other card.
C5_CardPerIncorrect ==
    (last.op = "handle_submit_quiz" /\ IsStoredQuiz(last.arg_id)) =>
       LET wrong == IncorrectEntries(last.quiz_results)
       IN  /\ Len(last.added) = Len(wrong)
           /\ Len(last.added) =
                 Len(StoredQuiz(last.arg_id).questions) - last.correct_count
           /\ \A j \in 1..Len(last.added) :
                 /\ last.added[j] \in CardIds(flash_cards)
                 /\ StoredCard(last.added[j]).question = wrong[j].question.text
                 /\ wrong[j].correct_answer # None
                 /\ StoredCard(last.added[j]).answer = wrong[j].correct_answer.text
           /\ last.pushed <= Len(last.added)

\* C6: a finished submit-quiz call on a stored quiz with at least one
\* question has called speak exactly once, in its last step and after its
\* pushes, and has returned `success`.
C6_SpeakOnceThenSuccess ==
    (/\ last.op = "handle_submit_quiz"
     /\ IsStoredQuiz(last.arg_id)
     /\ Len(StoredQuiz(last.arg_id).questions) >= 1)
    => /\ last.kind = "str"
       /\ last.ret = "success"
       /\ last.spoke = 1
       /\ Len(said) = 1
       /\ rpc_out = <<>>

FlaggedCorrect(question) ==
    {j \in 1..Len(question.answers) : question.answers[j].is_correct}

First(S) == CHOOSE j \in S : \A i \in S : j <= i
Last(S) == CHOOSE j \in S : \A i \in S : i <= j

GradedEntries ==
    {r \in UNION {{rec.quiz_results[k] : k \in 1..Len(rec.quiz_results)} :
                     rec \in Records} : TRUE}

\* C7 as stated: when several answers of a question are flagged correct, the
\* correct answer of its graded entry is the first of them in stored order.
C7_FirstCorrectWins ==
    \A r \in GradedEntries :
       Cardinality(FlaggedCorrect(r.question)) >= 2 =>
          r.correct_answer = r.question.answers[First(FlaggedCorrect(r.question))]

\* C7 as amended: when several answers of a question are flagged correct,
\* the correct answer of its graded entry is the last of them in stored
\* order.
C7_LastCorrectWins ==
    \A r \in GradedEntries :
       Cardinality(FlaggedCorrect(r.question)) >= 2 =>
          r.correct_answer = r.question.answers[Last(FlaggedCorrect(r.question))]

\* a submission graded incorrect on a question with two answers flagged
\* correct has made a card of it
C7_Witness ==
    /\ last.op = "handle_submit_quiz"
    /\ last.ret = "success"
    /\ \E k \in 1..Len(last.quiz_results) :
          /\ Cardinality(FlaggedCorrect(last.quiz_results[k].question)) = 2
          /\ ~Truthy(last.quiz_results[k].is_correct)
    /\ \E k \in 1..Len(flash_cards) : flash_cards[k].answer = "b"

\* C8: grading a stored quiz with N questions gives N entries, the i-th
\* about the i-th stored question, whatever the answers mapping.
C8_EntryPerQuestion ==
    \A rec \in Records :
       (rec.op = "handle_submit_quiz" /\ IsStoredQuiz(rec.arg_id)) =>
          LET quiz == StoredQuiz(rec.arg_id)
          IN  /\ Len(rec.quiz_results) = Len(quiz.questions)
              /\ \A i \in 1..Len(rec.quiz_results) :
                    rec.quiz_results[i].question = quiz.questions[i]

\* graded with a mapping that is not empty and selects no answer of any
\* question (unknown question ids, ids of no answer)
C8_Witness ==
    /\ last.op = "handle_submit_quiz"
    /\ ~last.empty_answers
    /\ Len(last.quiz_results) = 2
    /\ \A k \in 1..2 : last.quiz_results[k].selected_answer = None

\* C9: for a stored quiz with N questions, a mapping that selects an answer
\* flagged correct for every question is scored N out of N, the empty
\* mapping 0 out of N with no selected answer in any entry, and the report
\* spoken carries the score.
C9_Scores ==
    \A rec \in Records :
       (/\ rec.op = "handle_submit_quiz"
        /\ IsStoredQuiz(rec.arg_id)
        /\ Len(StoredQuiz(rec.arg_id).questions) >= 1)
       => LET N == Len(StoredQuiz(rec.arg_id).questions)
              res == rec.quiz_results
          IN  /\ (\A k \in 1..Len(res) :
                     /\ res[k].selected_answer # None
                     /\ res[k].selected_answer.is_correct)
                 => (rec.correct_count = N /\ rec.total_count = N)
              /\ rec.empty_answers
                 => /\ rec.correct_count = 0
                    /\ rec.total_count = N
                    /\ \A k \in 1..Len(res) : res[k].selected_answer = None
              /\ (rec = last /\ rec.ret = "success")
                 => /\ Len(said) = 1
                    /\ said[1].result_summary =
                          "You got " \o str(rec.correct_count) \o " out of "
                             \o str(N) \o " questions correct."

C9_Witness ==
    /\ last.op = "handle_submit_quiz"
    /\ last.ret = "success"
    /\ last.correct_count = 2
    /\ Len(said) = 1
    /\ said[1].result_summary = "You got 2 out of 2 questions correct."

\* C10: for every stored card, flipping it twice gives back the store as it
\* was, the first of the two flips having changed is_flipped of that card
\* only; is_flipped of a card is true exactly when the card has been
\* flipped an odd number of times.
C10_FlipTwice ==
    \A k \in 1..Len(flash_cards) :
       LET card == flash_cards[k]
           once == flip_flash_card(flash_cards, card.id)
           twice == flip_flash_card(once.cards, card.id)
       IN  /\ once.cards = [flash_cards EXCEPT ![k].is_flipped = ~card.is_flipped]
           /\ twice.cards = flash_cards
           /\ twice.card = card
           /\ card.is_flipped = (flips[card.id] = 1)

\* a card flipped by the tool and then by the inbound handler shows its
\* question side again
C10_Witness ==
    /\ last.op = "handle_flip_flash_card"
    /\ last.kind = "none"
    /\ \E k \in 1..Len(flash_cards) :
          /\ flash_cards[k].id = last.arg_id
          /\ ~flash_cards[k].is_flipped
          /\ flips[last.arg_id] = 0

AnswerSlots(questions) ==
    UNION {{<<k, j>> : j \in 1..Len(questions[k].answers)} :
              k \in 1..Len(questions)}

\* the create_quiz input with the flag of its answer at <<k, j>> set to f[<<k, j>>]
Reflag(questions, f) ==
    [k \in 1..Len(questions) |->
        [text |-> questions[k].text,
         answers |-> [j \in 1..Len(questions[k].answers) |->
            [text |-> questions[k].answers[j].text,
             is_correct |-> f[<<k, j>>]]]]]

\* the create_quiz inputs that differ from this one in is_correct flags only
FlagVariants(questions) ==
    {Reflag(questions, f) : f \in [AnswerSlots(questions) -> BOOLEAN]}

C11_Step ==
    \A k \in 1..Len(rpc_out') :
       rpc_out'[k].method = "client.quiz" =>
          LET sent == rpc_out'[k].payload.json
          IN  /\ \A q \in 1..Len(sent.questions) :
                    \A j \in 1..Len(sent.questions[q].answers) :
                       DOMAIN sent.questions[q].answers[j] = {"id", "text"}
              /\ \E questions \in QuizInputs :
                    /\ quizzes' = add_quiz(quizzes, next_uuid, questions).quizzes
                    /\ \A v \in FlagVariants(questions) :
                          sent = show_quiz_payload(
                                    add_quiz(quizzes, next_uuid, v).quiz)

\* C11: every answer object of a client.quiz payload has an id and a text
\* and nothing else, and the payload sent by a create_quiz call is the
\* payload the call would have sent, drawing the same identifiers, for any
\* input that differs from its input in is_correct flags only.
C11_NoCorrectnessLeak == [][C11_Step]_vars

\* the payload of a quiz with one question that has an answer flagged
\* correct and one that has none is being sent
C11_Witness ==
    \E k \in 1..Len(rpc_out) :
       /\ rpc_out[k].method = "client.quiz"
       /\ IsStoredQuiz(rpc_out[k].payload.json.id)
       /\ LET quiz == StoredQuiz(rpc_out[k].payload.json.id)
          IN  /\ Len(quiz.questions) = 2
              /\ FlaggedCorrect(quiz.questions[1]) # {}
              /\ FlaggedCorrect(quiz.questions[2]) = {}

\* C12: no operation ends by raising, and a submit-quiz call that has
\* pushed a card does not end with the error of a failed push.
C12_PushFailureTolerated ==
    /\ last.kind # "raise"
    /\ (last.op = "handle_submit_quiz" /\ last.pushed >= 1)
          => last.ret # "error: " \o RpcErrorText

Handlers == {"handle_flip_flash_card", "handle_submit_quiz"}

C13_Step ==
    (last'.op \in Handlers /\ last'.payload \in {"garbage", "list"})
    => /\ last'.kind = "str"
       /\ HasErrorPrefix(last'.ret)
       /\ flash_cards' = flash_cards
       /\ quizzes' = quizzes
       /\ next_uuid' = next_uuid
       /\ tasks' = tasks
       /\ remote_participants' = remote_participants
       /\ rpc_out' = <<>>
       /\ said' = <<>>

\* C13: an inbound call of either handler whose payload is not the JSON
\* text of an object returns a string prefixed `error: `, does not raise,
\* changes neither the store nor the suspended calls nor the room, issues
\* no RPC and does not speak; after it both handlers can still be called.
C13_MalformedPayload ==
    /\ [][C13_Step]_vars
    /\ []((last.op \in Handlers /\ last.payload \in {"garbage", "list"})
             => (ENABLED HandleFlipFlashCard /\ ENABLED HandleSubmitQuiz))

\* the flip handler has rejected a text that is no JSON while a submit-quiz
\* call is suspended in its push, the store holding a quiz and a card
C13_Witness ==
    /\ last.op = "handle_flip_flash_card"
    /\ last.payload = "garbage"
    /\ last.ret = "error: " \o JSONDecodeErrorText
    /\ \E t \in tasks : t.op = "handle_submit_quiz"
    /\ Len(flash_cards) >= 1

\* the step delivers, from its first statement to its return, the message
\* whose delivery has finished in the step before
C14_Redelivery ==
    /\ last.op \in Handlers
    /\ last.payload = "dict"
    /\ last'.op = last.op
    /\ last'.payload = last.payload
    /\ last'.arg_id = last.arg_id
    /\ last'.user_answers = last.user_answers
    /\ last'.pushed = 0

C14_Step ==
    C14_Redelivery => (flash_cards' = flash_cards /\ quizzes' = quizzes)

\* C14: delivering an agent.flipFlashCard or agent.submitQuiz message a
\* second time leaves the cards, their is_flipped flags and the quizzes as
\* the first delivery left them.
C14_Idempotent == [][C14_Step]_vars

\* C15: at most one RPC is dispatched in a step, and it is addressed to the
\* first of the remote participants connected in that step.
C15_SinglePeer ==
    /\ Len(rpc_out) <= 1
    /\ \A k \in 1..Len(rpc_out) :
          /\ remote_participants # <<>>
          /\ rpc_out[k].destination_identity = remote_participants[1]

\* with two participants connected, the submit-quiz handler pushes its card
\* to the one that is first in the room
C15_Witness ==
    /\ Len(remote_participants) = 2
    /\ remote_participants[1] = "p2"
    /\ Len(rpc_out) = 1
    /\ rpc_out[1].destination_identity = "p2"
    /\ \E t \in tasks : t.op = "handle_submit_quiz" /\ t.pushed = 1

\* the id the user has selected for the question, NoneId when none
SelectedId(rec, question) ==
    IF question.id \in DOMAIN rec.user_answers
    THEN rec.user_answers[question.id] ELSE NoneId

\* C16: an entry graded for a stored quiz is marked correct exactly when
\* the id the user selected for its question is the id of an answer of that
\* question that is flagged correct; so an unanswered question and a
\* selected id of none of its answers are marked incorrect.
C16_CorrectIff ==
    \A rec \in Records :
       (rec.op = "handle_submit_quiz" /\ IsStoredQuiz(rec.arg_id)) =>
          \A k \in 1..Len(rec.quiz_results) :
             LET question == StoredQuiz(rec.arg_id).questions[k]
                 sel == SelectedId(rec, question)
             IN  Truthy(rec.quiz_results[k].is_correct)
                 <=> \E j \in 1..Len(question.answers) :
                        /\ question.answers[j].id = sel
                        /\ question.answers[j].is_correct

\* graded: two questions that each have an answer flagged correct, the user
\* having selected for each of them an id of none of its answers
C16_Witness ==
    /\ last.op = "handle_submit_quiz"
    /\ Len(last.quiz_results) = 2
    /\ \A k \in 1..2 :
          LET r == last.quiz_results[k]
          IN  /\ FlaggedCorrect(r.question) # {}
              /\ SelectedId(last, r.question) = UnknownId
              /\ r.selected_answer = None
              /\ ~Truthy(r.is_correct)

Toggled(card) == [card EXCEPT !.is_flipped = ~card.is_flipped]

\* the step runs the toggle of a flip of the card: a flip tool call up to
\* its return or its suspension, or an inbound flip call
FlipRequested(card_id) ==
    \/ /\ last'.op \in {"flip_flash_card", "handle_flip_flash_card"}
       /\ last'.arg_id = card_id
       /\ last'.pushed = 0
    \/ \E t \in tasks' \ tasks :
          t.op = "flip_flash_card" /\ t.arg_id = card_id

C17_Step ==
    /\ Len(flash_cards') >= Len(flash_cards)
    /\ \A k \in 1..Len(flash_cards) :
          flash_cards'[k] = IF FlipRequested(flash_cards[k].id)
                            THEN Toggled(flash_cards[k]) ELSE flash_cards[k]
    /\ (\E c \in CardIds(flash_cards) : FlipRequested(c))
          => (quizzes' = quizzes /\ Len(flash_cards') = Len(flash_cards))

\* C17: whatever calls are suspended, a step that runs a flip of a card
\* toggles that card once and changes no other card and no quiz, a step
\* that runs no flip of a card leaves it as it is, and so every card shows
\* its answer side exactly when the flips run on it are odd in number.
C17_FlipsSerialize ==
    /\ [][C17_Step]_vars
    /\ [](\A k \in 1..Len(flash_cards) :
             flash_cards[k].is_flipped = (flips[flash_cards[k].id] = 1))

\* the inbound handler has flipped a card while a flip tool call on the
\* same card is suspended in its push: two flips, the card shows its
\* question side
C17_Witness ==
    /\ last.op = "handle_flip_flash_card"
    /\ last.arg_id \in CardIds(flash_cards)
    /\ \E t \in tasks : t.op = "flip_flash_card" /\ t.arg_id = last.arg_id
    /\ ~StoredCard(last.arg_id).is_flipped
    /\ Len(flash_cards) = 2

C18_Step ==
    (last'.op = "handle_flip_flash_card" /\ last'.payload = "dict")
    => /\ last'.kind = "none"
       /\ Len(flash_cards') = Len(flash_cards)
       /\ \A k \in 1..Len(flash_cards) :
             flash_cards'[k] = IF flash_cards[k].id = last'.arg_id
                               THEN Toggled(flash_cards[k]) ELSE flash_cards[k]
       /\ quizzes' = quizzes
       /\ tasks' = tasks
       /\ rpc_out' = <<>>
       /\ said' = <<>>

\* C18: an inbound flip call whose payload is the JSON text of an object
\* returns None; it toggles the stored card whose id the payload carries
\* and nothing else, so with no id or an id of no stored card the store is
\* unchanged; it changes no quiz and issues no RPC.
C18_FlipHandlerFrame == [][C18_Step]_vars

\* called with an id of no stored card on a store of two cards and a quiz
C18_Witness ==
    /\ last.op = "handle_flip_flash_card"
    /\ last.payload = "dict"
    /\ last.arg_id = UnknownId
    /\ last.kind = "none"
    /\ Len(flash_cards) = 2
    /\ Len(quizzes) = 1

C19_Step ==
    /\ Len(flash_cards') >= Len(flash_cards)
    /\ \A k \in 1..Len(flash_cards) :
          \/ flash_cards'[k] = flash_cards[k]
          \/ flash_cards'[k] = Toggled(flash_cards[k])
    /\ Len(quizzes') >= Len(quizzes)
    /\ \A k \in 1..Len(quizzes) : quizzes'[k] = quizzes[k]

\* C19: in every step the cards and quizzes stored before it are still
\* stored at the same positions, every quiz as it was and every card as it
\* was but for is_flipped.
C19_AppendOnly == [][C19_Step]_vars

\* a submission has been graded and has added a card behind a card that
\* has been flipped
C19_Witness ==
    /\ last.op = "handle_submit_quiz"
    /\ last.ret = "success"
    /\ Len(flash_cards) = 2
    /\ flash_cards[1].is_flipped
    /\ last.added = <<flash_cards[2].id>>
    /\ Len(quizzes) = 1

\* C20: a submit-quiz call whose payload carries an id returns
\* `error: Quiz not found` exactly when no stored quiz has that id.
C20_NotFoundIff ==
    (/\ last.op = "handle_submit_quiz"
     /\ last.payload = "dict"
     /\ last.arg_id # NoneId)
    => ((last.ret = "error: Quiz not found") <=> ~IsStoredQuiz(last.arg_id))

\* C21: a submit-quiz call that has returned a string prefixed `error: `
\* has added no card and has not spoken, and a call that has added a card
\* has returned `success`.
C21_ErrorLeavesStore ==
    (last.op = "handle_submit_quiz" /\ last.kind = "str") =>
       /\ HasErrorPrefix(last.ret) => (last.added = <<>> /\ last.spoke = 0)
       /\ last.added # <<>> => last.ret = "success"

\* C22: the text a flip tool call returns after its push names the side
\* its own toggle has put the card on.
C22_TextNamesOwnFlip ==
    (last.op = "flip_flash_card" /\ last.kind = "str" /\ last.pushed = 1) =>
       last.ret = "I've flipped the flash card to show the " \o last.side

====
